---- MODULE Spec2Model ----
(***************************************************************************)
(* A model of the dialog-integrations pipeline.                            *)
(*                                                                         *)
(*  Spec         the two commands of BaseIntegration (integrate, publish)  *)
(*               talking to the remote regulation API, call by call.       *)
(*  SpecSources  one run of integrate_regulations from its data sources:   *)
(*               the loop over the sources, the concatenation, then the    *)
(*               same steps as in Spec.                                    *)
(*  SpecGabarits the restrictions_gabarits field stages on bounded batches.*)
(*  SpecSarthes  the dp_sarthes fingerprint/dedup stages on bounded        *)
(*               batches.                                                  *)
(*  SpecVehicleFields, SpecVehicleSet, SpecValidate, SpecAssemble,         *)
(*  SpecPermuted, SpecCombine                                              *)
(*               one function each, applied to bounded arguments:          *)
(*               compute_vehicle_fields, create_save_vehicle_dto,          *)
(*               validate_raw_data, create_regulations (once, and on two   *)
(*               row orders), and the concatenation of the sources' frames.*)
(*                                                                         *)
(* Nullable values are sequences of length at most one: None is <<>>,      *)
(* Some(v) is <<v>>.  Strings are TLA+ strings; \o concatenates them.      *)
(***************************************************************************)
EXTENDS Integers, Sequences, FiniteSets, TLC

VARIABLES
    source,          \* the combined canonical batch the data sources yield
    remote,          \* the identifiers the remote system holds, in its list order
    published,       \* the remote identifiers whose status is published
    cmd,             \* the command being run: "none", "integrate", "publish"
    pc,              \* where the command is: "idle", "submit", "publish", "done", "raised"
    exc,             \* the place an exception escaped from, or "none"
    regulations,     \* integrate_regulations: the assembled regulations of this run
    fetch_resp,      \* the kind of answer the identifier request got in this run
    fetched,         \* the identifier list fetch_regulation_ids returned in this run
    todo,            \* regulations_to_integrate, the argument of _integrate_regulations
    idx,             \* loop position (1-based) of the submit or publish loop
    count_error,     \* the loop's count_error
    count_success,   \* the count the closing log line reports
    calls,           \* the add/publish calls issued in this run, with their answers
    last_accepted,   \* history: submissions accepted by the last run if it was an
                     \* integrate run that ended with count_error = 0, else -1
    prior,           \* history: last_accepted as it was when this run started
    prior_failed,    \* history: the identifiers whose submission failed in the run
                     \* before this one, if that was an integrate run
    gab_df,          \* restrictions_gabarits: the batch flowing through the stages
    gab_in,          \* restrictions_gabarits: the batch the last of
                     \* compute_regulation_fields, compute_vehicle_fields got
    gab_stage,       \* restrictions_gabarits: the next stage to run
    gab_raw,         \* restrictions_gabarits: the validated batch compute_clean_data got
    sar_df,          \* dp_sarthes: the batch flowing through the stages
    sar_in,          \* dp_sarthes: the batch build_id_and_drop_duplicates got
    sar_stage,       \* dp_sarthes: the next stage to run
    hash_tbl,        \* dp_sarthes: the seeded hash, as a table over the keys in play
    call_fn,         \* a function applied on its own: its name, or "off"
    call_arg,        \* a function applied on its own: its arguments
    call_ret,        \* a function applied on its own: what it returned or raised
    call_pc,         \* a function applied on its own: "off", "call" or "return"
    data_sources,    \* integrate_regulations: the configured data sources, in order
    all_clean_data   \* integrate_regulations: the frames of the sources processed so far

vars == <<source, remote, published, cmd, pc, exc, regulations, fetch_resp, fetched,
          todo, idx, count_error, count_success, calls, last_accepted, prior,
          prior_failed,
          gab_df, gab_in, gab_stage, gab_raw, sar_df, sar_in, sar_stage, hash_tbl,
          call_fn, call_arg, call_ret, call_pc, data_sources, all_clean_data>>

run_vars == <<source, remote, published, cmd, pc, exc, regulations, fetch_resp,
              fetched, todo, idx, count_error, count_success, calls, last_accepted,
              prior, prior_failed>>

gab_vars == <<gab_df, gab_in, gab_stage, gab_raw>>

sar_vars == <<sar_df, sar_in, sar_stage, hash_tbl>>

call_vars == <<call_fn, call_arg, call_ret, call_pc>>

src_vars == <<data_sources, all_clean_data>>

---------------------------------------------------------------------------
(* Bounds *)

\* Longest combined batch (number of rows) a run of a command starts from.
MaxRows == 2

\* Longest batch (number of rows) given to the field stages of a data source.
MaxBatch == 3

\* Most data sources of one integration (the length of data_sources).
MaxSources == 2

\* Longest clean frame (number of rows) of one of several data sources.
MaxSourceRows == 1

---------------------------------------------------------------------------
(* Generic helpers *)

None == <<>>

Some(v) == <<v>>

Range(s) == {s[i] : i \in 1..Len(s)}

\* All sequences over S of length at most n.
SeqsUpTo(S, n) == UNION {[1..k -> S] : k \in 0..n}

\* The orders in which a set can be enumerated.
Orders(S) == {o \in [1..Cardinality(S) -> S] : \A i, j \in 1..Cardinality(S) : o[i] = o[j] => i = j}

\* df.with_columns on one row: the columns of extra added to (or replacing) those of row.
with_columns(row, extra) ==
    [k \in DOMAIN row \cup DOMAIN extra |-> IF k \in DOMAIN extra THEN extra[k] ELSE row[k]]

\* Expr.fill_null on one nullable value.
fill_null(v, default) == IF v = None THEN default ELSE v[1]

\* Number of positions of s whose element satisfies Test.
CountIf(s, Test(_)) == Cardinality({i \in 1..Len(s) : Test(s[i])})

---------------------------------------------------------------------------
(* The canonical batch and the regulation assembler (base_integration.py)  *)

RegulationIds == {"a", "b"}

MeasureTypeEnum == {"speedLimitation", "noEntry"}

\* The columns of the canonical rows in play.
CanonicalColumns ==
    {"regulation_identifier", "regulation_category", "regulation_subject",
     "regulation_title", "regulation_other_category_text",
     "measure_type_", "measure_max_speed", "vehicle_all_vehicles"}

\* The canonical rows a run starts from: a regulation identifier, the other
\* regulation fields, a measure type, a nullable max speed (null on the
\* no-entry rows, whose max speed is never read) and the all-vehicles flag.
\* The vehicle_* columns hold None or Some(value).
CanonicalRows ==
    {row \in [regulation_identifier : RegulationIds,
              regulation_category : {"permanentRegulation"},
              regulation_subject : {"other"},
              regulation_title : {"t"},
              regulation_other_category_text : {"Circulation"},
              measure_type_ : MeasureTypeEnum,
              measure_max_speed : {None, Some(50)},
              vehicle_all_vehicles : {Some(TRUE)}] :
        row.measure_type_ = "noEntry" => row.measure_max_speed = None}

\* key.startswith("vehicle_")
is_vehicle_key(key) == Len(key) >= 8 /\ SubSeq(key, 1, 8) = "vehicle_"

\* key.replace("vehicle_", "", 1) of a key that starts with the prefix.
field_name(key) == SubSeq(key, 9, Len(key))

\* The vehicle fields whose values are lists (list[str] | None).
ListFields == {"exempted_types", "restricted_types"}

\* A cleaning that removes the null fields only.
is_dropped_null_only(field, cell) == cell = None

\* v in (None, [], {}): the cell is null, or holds an empty list or mapping.
\* Only the list fields can hold one, and [] and {} are both <<>> here.
is_dropped(field, cell) ==
    \/ cell = None
    \/ field \in ListFields /\ cell[1] = <<>>

\* create_save_vehicle_dto: the vehicle_ fields of the row without their
\* prefix, cleaned of the null and empty ones; all_vehicles alone and true
\* gives the set made of all_vehicles = true.  The set is modelled by the
\* keyword arguments given to SaveVehicleSetDTO.
create_save_vehicle_dto(measure) ==
    LET vehicle_keys == {key \in DOMAIN measure : is_vehicle_key(key)}
        vehicle_fields ==
            [f \in {field_name(key) : key \in vehicle_keys} |-> measure["vehicle_" \o f]]
        kept == {f \in DOMAIN vehicle_fields : ~is_dropped(f, vehicle_fields[f])}
        cleaned == [f \in kept |-> vehicle_fields[f][1]]
    IN IF /\ "all_vehicles" \in kept
          /\ cleaned["all_vehicles"] = TRUE
          /\ Cardinality(kept) = 1
       THEN [all_vehicles |-> TRUE]
       ELSE cleaned

\* A create_measure that builds a speed limitation without max speed when the
\* row has none, and copies the max speed of the row whatever the type.
create_measure_speed_optional(measure) ==
    IF measure.measure_type_ \notin MeasureTypeEnum
    THEN [ok |-> FALSE]
    ELSE [ok |-> TRUE, type_ |-> measure.measure_type_,
          vehicle_set |-> create_save_vehicle_dto(measure),
          max_speed |-> measure.measure_max_speed]

\* create_measure: fails (an exception in the code) when the type is no
\* MeasureTypeEnum value or when a speed limitation has no max speed
\* (int(None) raises); max_speed is set for speed limitations only.  The
\* periods and locations of the measure are left out.
create_measure(measure) ==
    IF measure.measure_type_ \notin MeasureTypeEnum
    THEN [ok |-> FALSE]
    ELSE IF measure.measure_type_ = "speedLimitation"
         THEN IF measure.measure_max_speed = None
              THEN [ok |-> FALSE]
              ELSE [ok |-> TRUE, type_ |-> measure.measure_type_,
                    vehicle_set |-> create_save_vehicle_dto(measure),
                    max_speed |-> Some(measure.measure_max_speed[1])]
         ELSE [ok |-> TRUE, type_ |-> measure.measure_type_,
               vehicle_set |-> create_save_vehicle_dto(measure),
               max_speed |-> None]

\* The keys of clean_data.group_by("regulation_identifier").
group_keys(clean_data) == {clean_data[i].regulation_identifier : i \in 1..Len(clean_data)}

\* A grouping that takes the first run of consecutive rows of the key only.
group_df_first_run(clean_data, key) ==
    LET first == CHOOSE i \in 1..Len(clean_data) :
                     /\ clean_data[i].regulation_identifier = key
                     /\ \A j \in 1..(i - 1) : clean_data[j].regulation_identifier # key
        in_run(i) == \A j \in first..i : clean_data[j].regulation_identifier = key
        last == CHOOSE i \in first..Len(clean_data) :
                    in_run(i) /\ (i = Len(clean_data) \/ ~in_run(i + 1))
    IN SubSeq(clean_data, first, last)

\* The rows of one group, in batch order.
group_df(clean_data, key) ==
    SelectSeq(clean_data, LAMBDA row : row.regulation_identifier = key)

\* A group whose measures are all lost when the construction of one fails.
group_measures_all_or_none(rows) ==
    LET built == [i \in 1..Len(rows) |-> create_measure(rows[i])]
    IN IF \A i \in 1..Len(rows) : built[i].ok THEN built ELSE <<>>

\* The measures built from a group's rows: rows whose construction fails are skipped.
group_measures(rows) ==
    LET built == [i \in 1..Len(rows) |-> create_measure(rows[i])]
    IN SelectSeq(built, LAMBDA m : m.ok)

\* An assembly without grouping: one regulation per row that builds a measure.
create_regulations_per_row(clean_data, order, status) ==
    LET one(row) ==
            [identifier |-> row.regulation_identifier,
             category |-> row.regulation_category,
             status |-> status,
             subject |-> row.regulation_subject,
             title |-> row.regulation_title,
             other_category_text |-> row.regulation_other_category_text,
             measures |-> group_measures(<<row>>)]
        all == [i \in 1..Len(clean_data) |-> one(clean_data[i])]
    IN SelectSeq(all, LAMBDA r : r.measures # <<>>)

\* An assembly that takes the regulation fields from the first row of the
\* group whose measure was built.
create_regulations_first_built(clean_data, order, status) ==
    LET one(key) ==
            LET rows == group_df(clean_data, key)
                ok(i) == create_measure(rows[i]).ok
                first_row ==
                    IF \E i \in 1..Len(rows) : ok(i)
                    THEN rows[CHOOSE i \in 1..Len(rows) : ok(i) /\ \A j \in 1..(i - 1) : ~ok(j)]
                    ELSE rows[1]
            IN [identifier |-> first_row.regulation_identifier,
                category |-> first_row.regulation_category,
                status |-> status,
                subject |-> first_row.regulation_subject,
                title |-> first_row.regulation_title,
                other_category_text |-> first_row.regulation_other_category_text,
                measures |-> group_measures(rows)]
        all == [i \in 1..Len(order) |-> one(order[i])]
    IN SelectSeq(all, LAMBDA r : r.measures # <<>>)

\* create_regulations, with the groups visited in the order `order` (group_by
\* promises no order): one regulation per group that built a measure, its
\* fields taken from the group's first row.
create_regulations(clean_data, order, status) ==
    LET one(key) ==
            LET rows == group_df(clean_data, key)
                first_row == rows[1]
            IN [identifier |-> first_row.regulation_identifier,
                category |-> first_row.regulation_category,
                status |-> status,
                subject |-> first_row.regulation_subject,
                title |-> first_row.regulation_title,
                other_category_text |-> first_row.regulation_other_category_text,
                measures |-> group_measures(rows)]
        all == [i \in 1..Len(order) |-> one(order[i])]
    IN SelectSeq(all, LAMBDA r : r.measures # <<>>)

---------------------------------------------------------------------------
(* The remote regulation API, as the code sees it                          *)

\* Identifiers the remote system may hold before the first run: one that
\* this system never assembles, and one it does.
InitialRemotes == {<<>>, <<"x">>, <<"x", "a-0">>}

\* Answers of GET organization-identifiers: the call raises, the response has
\* no parsed body, its parsed body has no identifiers attribute, or it lists
\* the identifiers the remote system holds.
IdentifierResponses(ids) ==
    {[raises |-> TRUE],
     [raises |-> FALSE, parsed |-> None],
     [raises |-> FALSE, parsed |-> Some([detail |-> "error"])],
     [raises |-> FALSE, parsed |-> Some([identifiers |-> ids])]}

\* Answers of POST regulation: the call raises, or returns a status code and
\* a body that is JSON or not.
AddResponses ==
    {[raises |-> TRUE],
     [raises |-> FALSE, status_code |-> 201, json_body |-> TRUE],
     [raises |-> FALSE, status_code |-> 400, json_body |-> TRUE],
     [raises |-> FALSE, status_code |-> 400, json_body |-> FALSE]}

\* Answers of PUT regulation/publish: the call raises, or returns a status code.
PublishResponses ==
    {[raises |-> TRUE],
     [raises |-> FALSE, status_code |-> 200],
     [raises |-> FALSE, status_code |-> 400]}

\* A fetch that falls back to an empty list when the answer is not parsed.
fetch_regulation_ids_fallback(resp) ==
    IF resp.raises
    THEN [raised |-> TRUE]
    ELSE IF resp.parsed = None \/ "identifiers" \notin DOMAIN resp.parsed[1]
         THEN [raised |-> FALSE, identifiers |-> <<>>]
         ELSE [raised |-> FALSE, identifiers |-> resp.parsed[1].identifiers]

\* fetch_regulation_ids on the answer of the identifier request: the request's
\* own exception propagates, an unparsed answer raises, else the list is returned.
fetch_regulation_ids(resp) ==
    IF resp.raises
    THEN [raised |-> TRUE]
    ELSE IF resp.parsed = None \/ "identifiers" \notin DOMAIN resp.parsed[1]
         THEN [raised |-> TRUE]
         ELSE [raised |-> FALSE, identifiers |-> resp.parsed[1].identifiers]

\* A loop that sets the status and leaves the identifier as assembled.
suffix_and_status_no_suffix(regs, status) ==
    [i \in 1..Len(regs) |-> [regs[i] EXCEPT !.status = status]]

\* regulation.identifier = f"{regulation.identifier}-0"; regulation.status = self.status
suffix_and_status(regs, status) ==
    [i \in 1..Len(regs) |->
        [regs[i] EXCEPT !.identifier = @ \o "-0", !.status = status]]

\* A diff that keeps every regulation (the set difference forgotten).
regulations_to_integrate_no_diff(regs, integrated_regulation_ids) == regs

\* A diff with the membership test inverted (in for not in).
regulations_to_integrate_inverted(regs, integrated_regulation_ids) ==
    SelectSeq(regs, LAMBDA r : r.identifier \in Range(integrated_regulation_ids))

\* The remote diff of integrate_regulations.
regulations_to_integrate(regs, integrated_regulation_ids) ==
    LET regulation_ids_to_integrate ==
            {regs[i].identifier : i \in 1..Len(regs)} \ Range(integrated_regulation_ids)
    IN SelectSeq(regs, LAMBDA r : r.identifier \in regulation_ids_to_integrate)

---------------------------------------------------------------------------
(* The commands of BaseIntegration                                         *)

\* A configuration that creates regulations as published.
status_published == "published"

\* self.status, DRAFT unless an integration overrides it.
status == "draft"

\* A command can start when none is running: at first, or after one ended.
CanStart == pc \in {"idle", "done", "raised"}

\* The identifiers of the add calls of this run that were counted as errors
\* or escaped with an exception: the call raised or the status was not 201.
failed_identifiers ==
    {calls[i].identifier : i \in {n \in 1..Len(calls) :
        calls[n].resp.raises \/ calls[n].resp.status_code # 201}}

\* integrate_regulations from the combined batch up to the call of
\* _integrate_regulations: assemble the
\* regulations from the sources' batch, suffix the identifiers, fetch the
\* remote identifiers (fatal when that fails) and keep the new regulations.
assemble_and_diff ==
    /\ \E order \in Orders(group_keys(source)), resp \in IdentifierResponses(remote) :
         LET regs == suffix_and_status(create_regulations(source, order, status), status)
             ids == fetch_regulation_ids(resp)
         IN /\ regulations' = regs
            /\ fetch_resp' = resp
            /\ IF ids.raised
               THEN /\ pc' = "raised"
                    /\ exc' = "fetch_regulation_ids"
                    /\ fetched' = <<>>
                    /\ todo' = <<>>
                    /\ last_accepted' = -1
               ELSE /\ pc' = "submit"
                    /\ exc' = "none"
                    /\ fetched' = ids.identifiers
                    /\ todo' = regulations_to_integrate(regs, ids.identifiers)
                    /\ last_accepted' = last_accepted
    /\ cmd' = "integrate"
    /\ prior' = last_accepted
    /\ prior_failed' = IF cmd = "integrate" THEN failed_identifiers ELSE {}
    /\ idx' = 1
    /\ count_error' = 0
    /\ count_success' = 0
    /\ calls' = <<>>
    /\ UNCHANGED <<source, remote, published>>
    /\ UNCHANGED <<gab_vars, sar_vars, call_vars, src_vars>>

\* integrate_regulations on the batch its data sources yield.
integrate_regulations == CanStart /\ assemble_and_diff

\* One turn of the loop of _integrate_regulations: one add_regulation call.  An
\* exception of the call is caught and counted; a status other than 201 is
\* counted after json.loads(resp.content), which raises on a body that is no
\* JSON, outside the try.  The remote system holds the identifier after a 201.
_integrate_regulations_step ==
    /\ pc = "submit"
    /\ idx <= Len(todo)
    /\ \E resp \in AddResponses :
         /\ calls' = Append(calls, [op |-> "add_regulation",
                                    identifier |-> todo[idx].identifier,
                                    resp |-> resp])
         /\ remote' = IF ~resp.raises /\ resp.status_code = 201
                      THEN Append(remote, todo[idx].identifier)
                      ELSE remote
         /\ IF resp.raises
            THEN /\ count_error' = count_error + 1
                 /\ idx' = idx + 1
                 /\ UNCHANGED <<pc, exc, last_accepted>>
            ELSE IF resp.status_code # 201
                 THEN IF resp.json_body
                      THEN /\ count_error' = count_error + 1
                           /\ idx' = idx + 1
                           /\ UNCHANGED <<pc, exc, last_accepted>>
                      ELSE /\ pc' = "raised"
                           /\ exc' = "json.loads"
                           /\ last_accepted' = -1
                           /\ UNCHANGED <<count_error, idx>>
                 ELSE /\ idx' = idx + 1
                      /\ UNCHANGED <<count_error, pc, exc, last_accepted>>
    /\ UNCHANGED <<source, published, cmd, regulations, fetch_resp, fetched, todo,
                   count_success, prior, prior_failed>>
    /\ UNCHANGED <<gab_vars, sar_vars, call_vars, src_vars>>

\* The end of _integrate_regulations: the success count is logged.
_integrate_regulations_end ==
    /\ pc = "submit"
    /\ idx > Len(todo)
    /\ count_success' = Len(todo) - count_error
    /\ pc' = "done"
    /\ last_accepted' = IF count_error = 0 THEN Len(todo) ELSE -1
    /\ UNCHANGED <<source, remote, published, cmd, exc, regulations, fetch_resp,
                   fetched, todo, idx, count_error, calls, prior,
                   prior_failed>>
    /\ UNCHANGED <<gab_vars, sar_vars, call_vars, src_vars>>

\* publish_regulations up to its loop: fetch the remote identifiers.
publish_regulations ==
    /\ CanStart
    /\ \E resp \in IdentifierResponses(remote) :
         LET ids == fetch_regulation_ids(resp)
         IN /\ fetch_resp' = resp
            /\ IF ids.raised
               THEN /\ pc' = "raised"
                    /\ exc' = "fetch_regulation_ids"
                    /\ fetched' = <<>>
               ELSE /\ pc' = "publish"
                    /\ exc' = "none"
                    /\ fetched' = ids.identifiers
    /\ cmd' = "publish"
    /\ prior' = last_accepted
    /\ prior_failed' = {}
    /\ last_accepted' = -1
    /\ regulations' = <<>>
    /\ todo' = <<>>
    /\ idx' = 1
    /\ count_error' = 0
    /\ count_success' = 0
    /\ calls' = <<>>
    /\ UNCHANGED <<source, remote, published>>
    /\ UNCHANGED <<gab_vars, sar_vars, call_vars, src_vars>>

\* A publish loop without its try/except: the call's exception escapes.
publish_regulations_step_no_try ==
    /\ pc = "publish"
    /\ idx <= Len(fetched)
    /\ \E resp \in PublishResponses :
         /\ calls' = Append(calls, [op |-> "publish_regulation",
                                    identifier |-> fetched[idx],
                                    resp |-> resp])
         /\ published' = IF ~resp.raises /\ resp.status_code = 200
                         THEN published \cup {fetched[idx]}
                         ELSE published
         /\ IF resp.raises
            THEN pc' = "raised" /\ exc' = "publish_regulation" /\ idx' = idx
            ELSE pc' = pc /\ exc' = exc /\ idx' = idx + 1
    /\ UNCHANGED <<source, remote, cmd, regulations, fetch_resp, fetched, todo,
                   count_error, count_success, last_accepted, prior,
                   prior_failed>>
    /\ UNCHANGED <<gab_vars, sar_vars, call_vars, src_vars>>

\* One turn of the loop of publish_regulations: one publish_regulation call.
\* Only an exception counts as an error; the response is not looked at.  The
\* remote system publishes the regulation when it answers with success.
publish_regulations_step ==
    /\ pc = "publish"
    /\ idx <= Len(fetched)
    /\ \E resp \in PublishResponses :
         /\ calls' = Append(calls, [op |-> "publish_regulation",
                                    identifier |-> fetched[idx],
                                    resp |-> resp])
         /\ published' = IF ~resp.raises /\ resp.status_code = 200
                         THEN published \cup {fetched[idx]}
                         ELSE published
         /\ count_error' = IF resp.raises THEN count_error + 1 ELSE count_error
    /\ idx' = idx + 1
    /\ UNCHANGED <<source, remote, cmd, pc, exc, regulations, fetch_resp, fetched,
                   todo, count_success, last_accepted, prior,
                   prior_failed>>
    /\ UNCHANGED <<gab_vars, sar_vars, call_vars, src_vars>>

\* The end of publish_regulations: the success count is logged.
publish_regulations_end ==
    /\ pc = "publish"
    /\ idx > Len(fetched)
    /\ count_success' = Len(fetched) - count_error
    /\ pc' = "done"
    /\ UNCHANGED <<source, remote, published, cmd, exc, regulations, fetch_resp,
                   fetched, todo, idx, count_error, calls, last_accepted, prior,
                   prior_failed>>
    /\ UNCHANGED <<gab_vars, sar_vars, call_vars, src_vars>>

\* The variables of the other specifications, at rest.
GabIdle == gab_df = <<>> /\ gab_in = <<>> /\ gab_stage = "off" /\ gab_raw = <<>>

SarIdle == sar_df = <<>> /\ sar_in = <<>> /\ sar_stage = "off" /\ hash_tbl = <<>>

CallIdle == call_fn = "off" /\ call_arg = <<>> /\ call_ret = <<>> /\ call_pc = "off"

SrcIdle == data_sources = <<>> /\ all_clean_data = <<>>

RunIdle ==
    /\ source = <<>>
    /\ remote = <<>>
    /\ published = {}
    /\ cmd = "none"
    /\ pc = "off"
    /\ exc = "none"
    /\ regulations = <<>>
    /\ fetch_resp = [raises |-> TRUE]
    /\ fetched = <<>>
    /\ todo = <<>>
    /\ idx = 1
    /\ count_error = 0
    /\ count_success = 0
    /\ calls = <<>>
    /\ last_accepted = -1
    /\ prior = -1
    /\ prior_failed = {}

Init ==
    /\ source \in SeqsUpTo(CanonicalRows, MaxRows)
    /\ remote \in InitialRemotes
    /\ published = {}
    /\ cmd = "none"
    /\ pc = "idle"
    /\ exc = "none"
    /\ regulations = <<>>
    /\ fetch_resp = [raises |-> TRUE]
    /\ fetched = <<>>
    /\ todo = <<>>
    /\ idx = 1
    /\ count_error = 0
    /\ count_success = 0
    /\ calls = <<>>
    /\ last_accepted = -1
    /\ prior = -1
    /\ prior_failed = {}
    /\ GabIdle
    /\ SarIdle
    /\ CallIdle
    /\ SrcIdle

Next ==
    \/ integrate_regulations
    \/ _integrate_regulations_step
    \/ _integrate_regulations_end
    \/ publish_regulations
    \/ publish_regulations_step
    \/ publish_regulations_end

Spec == Init /\ [][Next]_vars

---------------------------------------------------------------------------
(* Claims about the commands (specification Spec)                          *)

\* The identifier request of this run did not yield an identifier list.
FetchFailed ==
    \/ fetch_resp.raises
    \/ fetch_resp.parsed = None
    \/ "identifiers" \notin DOMAIN fetch_resp.parsed[1]

\* The identifiers of a sequence of regulations, in order.
Identifiers(regs) == [i \in 1..Len(regs) |-> regs[i].identifier]

\* The identifiers the calls of this run were issued for, in order.
CalledIdentifiers == [i \in 1..Len(calls) |-> calls[i].identifier]

\* A publish or add answer that is no success: an exception or a non-2xx status.
IsFailure(call) == call.resp.raises \/ call.resp.status_code \notin 200..299

\* C1: idempotence of integrate.  A run of integrate_regulations that directly
\* follows a run in which the remote system accepted every submission, over
\* the same source data, has nothing to submit and issues no add call.
C1_Idempotence ==
    (cmd = "integrate" /\ prior >= 0) => (todo = <<>> /\ calls = <<>>)

\* C1 witness: a second run has ended after a first run that had at least one
\* regulation accepted.
C1_Witness ==
    cmd = "integrate" /\ prior > 0 /\ pc = "done" /\ regulations # <<>>

\* C2: diffing policy.  Once the identifiers are fetched, a regulation is given
\* to the submit loop iff it was assembled in this run and its suffixed
\* identifier is not in the fetched list; no add call is ever issued for an
\* identifier of the fetched list.
C2_DiffingPolicy ==
    (cmd = "integrate" /\ ~FetchFailed) =>
        /\ \A r \in Range(regulations) :
               r \in Range(todo) <=> r.identifier \notin Range(fetched)
        /\ Range(todo) \subseteq Range(regulations)
        /\ \A i \in 1..Len(calls) :
               /\ calls[i].identifier \notin Range(fetched)
               /\ calls[i].identifier \in Range(Identifiers(regulations))

\* C2 witness: a run ended with one assembled regulation already remote (not
\* submitted) and another one submitted.
C2_Witness ==
    /\ cmd = "integrate" /\ pc = "done"
    /\ \E r \in Range(regulations) : r.identifier \in Range(fetched)
    /\ \E r \in Range(regulations) : r.identifier \notin Range(fetched)
    /\ calls # <<>>

\* C3: a failed fetch of the existing identifiers is fatal.  When the request
\* raises or its answer has no parsed identifier list, the command has raised
\* out of fetch_regulation_ids and has issued no add and no publish call.
C3_FetchFatal ==
    (cmd # "none" /\ FetchFailed) =>
        (pc = "raised" /\ exc = "fetch_regulation_ids" /\ calls = <<>>)

\* C3 witness: integrate had regulations to submit and the identifier request
\* answered without a parsed body.
C3_Witness ==
    /\ cmd = "integrate" /\ regulations # <<>>
    /\ ~fetch_resp.raises /\ fetch_resp.parsed = None
    /\ pc = "raised"

\* C4 (as claimed): when _integrate_regulations is over, add_regulation was
\* called exactly once per regulation of its list, in list order, whatever
\* the earlier calls answered.
C4_EveryRegulationSubmittedOnce ==
    (cmd = "integrate" /\ ~FetchFailed /\ pc \in {"done", "raised"}) =>
        CalledIdentifiers = Identifiers(todo)

\* C5 (as claimed): no exception leaves the submit loop or the publish loop;
\* a command that raised did so in fetch_regulation_ids, before its loop.
C5_NoExceptionLeavesTheLoops ==
    pc = "raised" => exc = "fetch_regulation_ids"

\* C6: partial-failure isolation in publish.  The loop calls publish once per
\* fetched identifier, in list order, whether or not earlier calls raised: it
\* never raises, and when it is over with exactly one call having raised it
\* reports 1 failure and N-1 successes.
C6_PublishIsolation ==
    (cmd = "publish" /\ ~FetchFailed) =>
        /\ pc \in {"publish", "done"}
        /\ CalledIdentifiers = SubSeq(fetched, 1, idx - 1)
        /\ \A i \in 1..Len(calls) : calls[i].op = "publish_regulation"
        /\ pc = "done" =>
               /\ CalledIdentifiers = fetched
               /\ CountIf(calls, LAMBDA c : c.resp.raises) = 1 =>
                      (count_error = 1 /\ count_success = Len(fetched) - 1)

\* C6 witness: publish is over, the list held an identifier this system never
\* submits, the first call raised and the later ones were still issued.
C6_Witness ==
    /\ cmd = "publish" /\ pc = "done"
    /\ Len(fetched) >= 2 /\ "x" \in Range(fetched)
    /\ calls[1].resp.raises
    /\ CountIf(calls, LAMBDA c : c.resp.raises) = 1

\* C7 (as claimed): when publish is over, its failure count is the number of
\* calls that raised or returned a non-2xx status.
C7_PublishCountsNonSuccess ==
    (cmd = "publish" /\ pc = "done") =>
        count_error = CountIf(calls, IsFailure)

\* C17 (as claimed): deterministic submission order.  A run of
\* integrate_regulations that directly follows a completed run of it, over the
\* same source data and with the remote system holding the same identifiers
\* as when that run started, submits the same regulations in the same order
\* as that run did.
C17_SameSubmissionOrder ==
    [][(/\ cmd = "integrate" /\ pc = "done" /\ ~FetchFailed
        /\ cmd' = "integrate" /\ pc' = "submit"
        /\ source' = source
        /\ Range(fetched') = Range(fetched))
           => Identifiers(todo') = CalledIdentifiers]_vars

---------------------------------------------------------------------------
(* restrictions_gabarits: the field stages of compute_clean_data           *)

\* The object ids in play; objectid is a non-nullable int of the raw schema.
ObjectIds == {1, 10}

\* The float columns tonnage (tons), hauteur and largeur (metres) are held in
\* tenths: 75 is 7.5 t, 39 is 3.9 m.  A product of such a value by an integer
\* is again in tenths: 75 * 1000 = 75000 is 7500.0 kg.
Tonnages == {None, Some(0), Some(75)}

Hauteurs == {None, Some(0), Some(39)}

Largeurs == {None, Some(0), Some(25)}

\* Validated rows of the source, restricted to the columns the stages below
\* read.  Nullable columns hold None or Some(value).
GabaritsRows ==
    [objectid : ObjectIds,
     nature : {None, Some("N")},
     site : {Some("S")},
     localisation_curviligne : {Some("L")},
     date_creation : {None, Some("2020-01-01")},
     geo_shape : {None, Some("G")},
     tonnage : {Some(75)},
     hauteur : {Some(0)},
     largeur : {None}]

\* Frames holding only the three dimension columns, as compute_vehicle_fields
\* reads no other.
DimensionRows == [tonnage : Tonnages, hauteur : Hauteurs, largeur : Largeurs]

\* compute_measure_fields: every row is a no-entry measure without max speed.
compute_measure_fields(df) ==
    [i \in 1..Len(df) |->
        with_columns(df[i], [measure_type_ |-> "noEntry", measure_max_speed |-> None])]

\* compute_period_fields: rows without date_creation are dropped; the period
\* starts at date_creation and is permanent.
compute_period_fields(df) ==
    LET kept == SelectSeq(df, LAMBDA row : row.date_creation # None)
    IN [i \in 1..Len(kept) |->
           with_columns(kept[i],
               [period_start_date |-> kept[i].date_creation,
                period_end_date |-> None,
                period_start_time |-> None,
                period_end_time |-> None,
                period_recurrence_type |-> Some("everyDay"),
                period_is_permanent |-> Some(TRUE)])]

\* compute_location_fields: rows without geo_shape are dropped; the location is
\* the raw geometry labelled by localisation_curviligne.
compute_location_fields(df) ==
    LET kept == SelectSeq(df, LAMBDA row : row.geo_shape # None)
    IN [i \in 1..Len(kept) |->
           with_columns(kept[i],
               [location_road_type |-> "rawGeoJson",
                location_label |-> kept[i].localisation_curviligne,
                location_geometry |-> kept[i].geo_shape])]

\* df.group_by("objectid").len().filter(len > 1): the object ids on two rows or more.
dup_objectids(df) ==
    {k \in {df[i].objectid : i \in 1..Len(df)} :
        Cardinality({i \in 1..Len(df) : df[i].objectid = k}) > 1}

\* A dedup that keeps the first row of each object id (only the extras dropped).
drop_duplicated_objectids_keep_first(df) ==
    LET first(i) == \A j \in 1..(i - 1) : df[j].objectid # df[i].objectid
        keep == {i \in 1..Len(df) : first(i)}
        nth[n \in 0..Len(df)] ==
            IF n = 0 THEN <<>>
            ELSE IF n \in keep THEN Append(nth[n - 1], df[n]) ELSE nth[n - 1]
    IN nth[Len(df)]

\* df.join(dup_ids, on="objectid", how="anti"): the rows whose object id is not duplicated.
drop_duplicated_objectids(df) ==
    SelectSeq(df, LAMBDA row : row.objectid \notin dup_objectids(df))

\* compute_regulation_fields: every row of a duplicated objectid is dropped, then
\* the regulation fields are computed from objectid, nature and site.
compute_regulation_fields(df) ==
    LET kept == drop_duplicated_objectids(df)
    IN [i \in 1..Len(kept) |->
           with_columns(kept[i],
               [regulation_identifier |-> ToString(kept[i].objectid),
                regulation_category |-> "permanentRegulation",
                regulation_subject |-> "other",
                regulation_title |->
                    ToString(kept[i].objectid) \o " - " \o fill_null(kept[i].nature, "")
                        \o " - " \o fill_null(kept[i].site, ""),
                regulation_other_category_text |-> "Circulation"])]

\* A weight column that is the tonnage as given (no conversion to kilograms).
heavyweight_max_weight_unconverted(row) ==
    IF row.tonnage # None /\ row.tonnage[1] > 0 THEN row.tonnage ELSE None

\* when(tonnage not null and > 0).then(tonnage * 1000).otherwise(None)
heavyweight_max_weight(row) ==
    IF row.tonnage # None /\ row.tonnage[1] > 0
    THEN Some(row.tonnage[1] * 1000)
    ELSE None

\* A dimension column that passes the raw value through, zero included.
dimension_as_given(raw) == raw

\* when(col not null and > 0).then(col).otherwise(None), for hauteur and largeur.
dimension_or_null(raw) == IF raw # None /\ raw[1] > 0 THEN raw ELSE None

\* compute_vehicle_fields: adds the vehicle columns to every row; no row is
\* dropped.  The vehicle_* columns hold None or Some(value); a list value is a
\* sequence.
compute_vehicle_fields(df) ==
    [i \in 1..Len(df) |->
        with_columns(df[i],
            [vehicle_all_vehicles |-> Some(FALSE),
             vehicle_heavyweight_max_weight |-> heavyweight_max_weight(df[i]),
             vehicle_max_height |-> dimension_or_null(df[i].hauteur),
             vehicle_max_width |-> dimension_or_null(df[i].largeur),
             vehicle_exempted_types |-> Some(<<>>),
             vehicle_restricted_types |->
                 IF df[i].tonnage # None /\ df[i].tonnage[1] > 0
                 THEN Some(<<"heavyGoodsVehicle">>)
                 ELSE Some(<<"dimensions">>),
             vehicle_other_exempted_type_text |-> None])]

\* The stages of compute_clean_data, one action each, in pipeline order.
GabStage(stage, next, out) ==
    /\ gab_stage = stage
    /\ gab_df' = out
    /\ gab_stage' = next
    /\ gab_in' = IF stage \in {"regulation", "vehicle"} THEN gab_df ELSE gab_in
    /\ gab_raw' = IF stage = "measure" THEN gab_df ELSE gab_raw
    /\ UNCHANGED <<run_vars, sar_vars, call_vars, src_vars>>

gab_compute_measure_fields == GabStage("measure", "period", compute_measure_fields(gab_df))

gab_compute_period_fields == GabStage("period", "location", compute_period_fields(gab_df))

gab_compute_location_fields == GabStage("location", "regulation", compute_location_fields(gab_df))

gab_compute_regulation_fields == GabStage("regulation", "vehicle", compute_regulation_fields(gab_df))

gab_compute_vehicle_fields == GabStage("vehicle", "done", compute_vehicle_fields(gab_df))

InitGabarits ==
    /\ gab_df \in SeqsUpTo(GabaritsRows, MaxBatch)
    /\ gab_in = <<>>
    /\ gab_stage = "measure"
    /\ gab_raw = <<>>
    /\ RunIdle
    /\ SarIdle
    /\ CallIdle
    /\ SrcIdle

NextGabarits ==
    \/ gab_compute_measure_fields
    \/ gab_compute_period_fields
    \/ gab_compute_location_fields
    \/ gab_compute_regulation_fields
    \/ gab_compute_vehicle_fields

SpecGabarits == InitGabarits /\ [][NextGabarits]_vars

\* compute_vehicle_fields on its own, over frames of the dimension columns.
InitVehicleFields ==
    /\ gab_df \in SeqsUpTo(DimensionRows, MaxBatch)
    /\ gab_in = <<>>
    /\ gab_stage = "vehicle"
    /\ gab_raw = <<>>
    /\ RunIdle
    /\ SarIdle
    /\ CallIdle
    /\ SrcIdle

SpecVehicleFields == InitVehicleFields /\ [][gab_compute_vehicle_fields]_vars

---------------------------------------------------------------------------
(* Claims about restrictions_gabarits (specifications SpecGabarits and      *)
(* SpecVehicleFields)                                                      *)

\* A row cut down to the columns of `like`.
Restrict(row, like) == [k \in DOMAIN like |-> row[k]]

\* The decimal rendering of the object ids in play.
Decimal(n) == CASE n = 1 -> "1" [] n = 10 -> "10"

\* Number of rows of df that carry the object id k.
Occurrences(df, k) == CountIf(df, LAMBDA row : row.objectid = k)

\* C8: carried-identifier dedup.  The output of compute_regulation_fields is,
\* in input order, exactly the input rows whose objectid occurs once in the
\* input (every row of a repeated objectid is dropped), and each kept row's
\* regulation_identifier is its objectid rendered as a string.
C8_CarriedIdentifierDedup ==
    gab_stage = "vehicle" =>
        /\ [i \in 1..Len(gab_df) |-> Restrict(gab_df[i], gab_in[1])]
               = SelectSeq(gab_in, LAMBDA row : Occurrences(gab_in, row.objectid) = 1)
        /\ \A i \in 1..Len(gab_df) :
               gab_df[i].regulation_identifier = Decimal(gab_df[i].objectid)

\* C8 witness: the stage got a batch with a repeated objectid and a single
\* one, and kept only the row of the single one.
C8_Witness ==
    /\ gab_stage = "vehicle"
    /\ Len(gab_in) = 3
    /\ Len(gab_df) = 1
    /\ Occurrences(gab_in, gab_df[1].objectid) = 1
    /\ gab_df[1].regulation_identifier = "10"

\* C23 (as claimed): carried-identifier dedup at pipeline level.  An objectid
\* that is on more than one row of the validated batch is on no row of the
\* output of compute_clean_data, whatever the other columns of those rows.
C23_PipelineDedup ==
    gab_stage = "done" =>
        \A i \in 1..Len(gab_df) : Occurrences(gab_raw, gab_df[i].objectid) = 1

DimensionColumns ==
    {<<"tonnage", "vehicle_heavyweight_max_weight">>,
     <<"hauteur", "vehicle_max_height">>,
     <<"largeur", "vehicle_max_width">>}

HasTonnage(row) == row.tonnage # None /\ row.tonnage[1] > 0

\* C21 (as claimed): compute_vehicle_fields filters out the rows whose tonnage
\* is 0.  No output row has a tonnage of 0, and the output rows of positive
\* tonnage are the input rows of positive tonnage, in input order (tonnages
\* 7.5, 0, 3.5, 0 give two rows).
C21_TonnageZeroFiltered ==
    gab_stage = "done" =>
        /\ \A i \in 1..Len(gab_df) : gab_df[i].tonnage # Some(0)
        /\ SelectSeq([i \in 1..Len(gab_df) |-> Restrict(gab_df[i], gab_in[1])], HasTonnage)
               = SelectSeq(gab_in, HasTonnage)

---------------------------------------------------------------------------
(* dp_sarthes: fingerprint, dedup and assembly (dp_sarthes/integration.py)  *)

\* Raw rows of the limitations-vitesse export, restricted to the columns the
\* stages read.  Nullable columns hold None or Some(value).
SarthesRows ==
    [infobulle : {Some("I")},
     VITESSE : {None, Some(50)},
     annee : {Some(2020)},
     date_modif : {Some("2021-05-05")},
     geo_shape : {Some("G")},
     loc_txt : {None, Some("A"), Some("B")},
     longueur : {None, Some(100)}]

\* Int64 cast to Utf8 of a nullable integer: its decimal digits, null for null.
cast_utf8(v) == IF v = None THEN None ELSE Some(ToString(v[1]))

\* pl.concat_str(parts, separator): null as soon as one part is null.
concat_str(parts, separator) ==
    LET join[n \in 1..Len(parts)] ==
            IF n = 1 THEN parts[1][1] ELSE join[n - 1] \o separator \o parts[n][1]
    IN IF \E i \in 1..Len(parts) : parts[i] = None THEN None ELSE Some(join[Len(parts)])

\* The string the fingerprint of a row is the hash of.
fingerprint_key(row) ==
    concat_str(<<row.loc_txt, cast_utf8(row.VITESSE), cast_utf8(row.longueur)>>, "|")

\* The keys the rows in play can have, null included.
SarthesKeys == {fingerprint_key(row) : row \in SarthesRows}

\* Expr.hash yields an unsigned 64-bit integer.  The values in play, written as
\* decimal digits (most significant first): a small one and the largest, 2^64-1.
UInt64Values ==
    {<<7>>, <<1, 8, 4, 4, 6, 7, 4, 4, 0, 7, 3, 7, 0, 9, 5, 5, 1, 6, 1, 5>>}

\* UInt64 cast to Utf8: the decimal digits as a string.
cast_uint64_utf8(digits) ==
    LET str[n \in 0..Len(digits)] ==
            IF n = 0 THEN "" ELSE str[n - 1] \o ToString(digits[n])
    IN str[Len(digits)]

\* The length given to .str.slice(0, 32).
IdLength == 32

\* Expr.str.slice(0, length): the first `length` characters, or all when shorter.
str_slice(str, length) ==
    SubSeq(str, 1, IF Len(str) < length THEN Len(str) ELSE length)

\* The id column of build_id_and_drop_duplicates: the seeded hash of the key,
\* cast to a string and sliced.
build_id(row) ==
    str_slice(cast_uint64_utf8(hash_tbl[fingerprint_key(row)]), IdLength)

\* compute_vitesse: VITESSE cast to Int64; rows whose VITESSE is null, not
\* positive or above 130 are dropped.
compute_vitesse(df) ==
    SelectSeq(df, LAMBDA row :
        ~(row.VITESSE = None \/ row.VITESSE[1] <= 0 \/ row.VITESSE[1] > 130))

\* df.group_by("id").len().filter(len > 1): the ids on two rows or more.
dup_ids(df) ==
    {k \in {df[i].id : i \in 1..Len(df)} :
        Cardinality({i \in 1..Len(df) : df[i].id = k}) > 1}

\* A dedup that keeps the first row of each id (only the extras dropped).
drop_duplicated_ids_keep_first(df) ==
    LET first(i) == \A j \in 1..(i - 1) : df[j].id # df[i].id
        nth[n \in 0..Len(df)] ==
            IF n = 0 THEN <<>>
            ELSE IF first(n) THEN Append(nth[n - 1], df[n]) ELSE nth[n - 1]
    IN nth[Len(df)]

\* df.join(dup_ids, on="id", how="anti"): the rows whose id is not duplicated.
drop_duplicated_ids(df) ==
    SelectSeq(df, LAMBDA row : row.id \notin dup_ids(df))

\* build_id_and_drop_duplicates: the id column is added, then every row of a
\* duplicated id is dropped.
build_id_and_drop_duplicates(df) ==
    drop_duplicated_ids([i \in 1..Len(df) |-> with_columns(df[i], [id |-> build_id(df[i])])])

\* compute_title: infobulle, or "Inconnu" when it is null or empty.
compute_title(row) ==
    IF row.infobulle = None \/ row.infobulle = Some("") THEN "Inconnu" ELSE row.infobulle[1]

\* compute_start_date: January 1st of annee, or date_modif without annee.
compute_start_date(row) ==
    IF row.annee # None
    THEN Some(ToString(row.annee[1]) \o "-01-01T00:00:00Z")
    ELSE row.date_modif

\* compute_location_label: loc_txt, or the title when it is null or empty.
compute_location_label(row) ==
    IF row.loc_txt # None /\ row.loc_txt # Some("") THEN row.loc_txt[1] ELSE compute_title(row)

\* The stages of compute_clean_data after build_id_and_drop_duplicates: title,
\* start date, label and geometry are computed, rows without geometry are
\* dropped and the six output columns are selected.
select_clean_data(df) ==
    LET kept == SelectSeq(df, LAMBDA row : row.geo_shape # None)
    IN [i \in 1..Len(kept) |->
           [id |-> kept[i].id,
            title |-> compute_title(kept[i]),
            max_speed |-> kept[i].VITESSE,
            start_date |-> compute_start_date(kept[i]),
            geometry |-> kept[i].geo_shape,
            label |-> compute_location_label(kept[i])]]

\* Integration.create_regulations of dp_sarthes: one draft regulation with one
\* speed-limitation measure per row, in row order; a row whose measure cannot
\* be built (int(None) raises) is skipped.
sarthes_create_regulations(clean_data) ==
    LET built == SelectSeq(clean_data, LAMBDA row : row.max_speed # None)
    IN [i \in 1..Len(built) |->
           [identifier |-> built[i].id,
            title |-> built[i].title,
            status |-> "draft",
            measures |-> <<[type_ |-> "speedLimitation",
                            max_speed |-> built[i].max_speed[1]]>>]]

\* The stages, one action each, in pipeline order.
SarStage(stage, next, out) ==
    /\ sar_stage = stage
    /\ sar_df' = out
    /\ sar_stage' = next
    /\ sar_in' = IF stage = "build_id" THEN sar_df ELSE sar_in
    /\ UNCHANGED <<run_vars, gab_vars, hash_tbl, call_vars, src_vars>>

sar_compute_vitesse == SarStage("vitesse", "build_id", compute_vitesse(sar_df))

sar_build_id_and_drop_duplicates ==
    SarStage("build_id", "select", build_id_and_drop_duplicates(sar_df))

sar_select_clean_data == SarStage("select", "create", select_clean_data(sar_df))

sar_create_regulations == SarStage("create", "done", sarthes_create_regulations(sar_df))

InitSarthes ==
    /\ sar_df \in SeqsUpTo(SarthesRows, MaxBatch)
    /\ sar_in = <<>>
    /\ sar_stage = "vitesse"
    /\ hash_tbl \in [SarthesKeys -> UInt64Values]
    /\ RunIdle
    /\ GabIdle
    /\ CallIdle
    /\ SrcIdle

NextSarthes ==
    \/ sar_compute_vitesse
    \/ sar_build_id_and_drop_duplicates
    \/ sar_select_clean_data
    \/ sar_create_regulations

SpecSarthes == InitSarthes /\ [][NextSarthes]_vars

---------------------------------------------------------------------------
(* Claims about dp_sarthes (specification SpecSarthes)                     *)

\* Rows i and j of the batch given to the dedup stage have the same fingerprint.
Collide(i, j) == build_id(sar_in[i]) = build_id(sar_in[j])

\* Row i of that batch shares its fingerprint with another row of the batch.
Collides(i) == \E j \in 1..Len(sar_in) : j # i /\ Collide(i, j)

\* The identifiers carried by what the current stage holds (rows, then regulations).
HeldIds ==
    {IF sar_stage = "done" THEN sar_df[i].identifier ELSE sar_df[i].id : i \in 1..Len(sar_df)}

C10_IdHas32Characters ==
    sar_stage = "select" => \A i \in 1..Len(sar_in) : Len(build_id(sar_in[i])) = IdLength

\* C24 (as claimed): a row whose infobulle is present gets its infobulle as
\* id and is kept by build_id_and_drop_duplicates; only a row without
\* infobulle gets the hash of (loc_txt, VITESSE, longueur) as id, and only such
\* rows are dropped as duplicates.
C24_InfobulleIsId ==
    sar_stage = "select" =>
        \A i \in 1..Len(sar_in) :
            IF sar_in[i].infobulle # None
            THEN \E j \in 1..Len(sar_df) :
                     sar_df[j] = with_columns(sar_in[i], [id |-> sar_in[i].infobulle[1]])
            ELSE \A j \in 1..Len(sar_df) :
                     Restrict(sar_df[j], sar_in[i]) = sar_in[i]
                         => sar_df[j].id = build_id(sar_in[i])

\* Rows i and j of the batch given to the dedup stage differ in a
\* discriminating field.
Differ(i, j) ==
    \/ sar_in[i].loc_txt # sar_in[j].loc_txt
    \/ sar_in[i].VITESSE # sar_in[j].VITESSE
    \/ sar_in[i].longueur # sar_in[j].longueur

\* The hash sends the different keys of the batch to different values.
NoHashCollision ==
    \A i, j \in 1..Len(sar_in) :
        fingerprint_key(sar_in[i]) # fingerprint_key(sar_in[j])
            => hash_tbl[fingerprint_key(sar_in[i])] # hash_tbl[fingerprint_key(sar_in[j])]

\* C29 (as claimed): two rows that differ in at least one of loc_txt, VITESSE
\* and longueur are not dropped as duplicates of each other, also when loc_txt
\* or longueur is null in them; stated for a hash without collisions among
\* the keys of the batch.
C29_DifferentRowsNeverCollide ==
    (sar_stage = "select" /\ NoHashCollision) =>
        \A i, j \in 1..Len(sar_in) :
            (i # j /\ Differ(i, j)) =>
                ~(/\ Collide(i, j)
                  /\ build_id(sar_in[i]) \notin HeldIds)

---------------------------------------------------------------------------
(* Functions applied on their own to bounded arguments                     *)

\* One application of the function fn: call_ret takes what it returns.
Call(fn, ret) ==
    /\ call_pc = "call"
    /\ call_fn = fn
    /\ call_ret' = ret
    /\ call_pc' = "return"
    /\ UNCHANGED <<call_fn, call_arg, run_vars, gab_vars, sar_vars, src_vars>>

\* The state before fn is applied to an argument of args.
InitCall(fn, args) ==
    /\ call_fn = fn
    /\ call_arg \in args
    /\ call_ret = <<>>
    /\ call_pc = "call"
    /\ RunIdle
    /\ GabIdle
    /\ SarIdle
    /\ SrcIdle

\* Rows as create_save_vehicle_dto gets them: the seven vehicle_ fields of
\* RegulationMeasure next to a field of another prefix.
VehicleSetRows ==
    [measure_type_ : {"noEntry"},
     vehicle_all_vehicles : {Some(TRUE), Some(FALSE)},
     vehicle_heavyweight_max_weight : {None, Some(75000)},
     vehicle_max_height : {None, Some(39)},
     vehicle_max_width : {None, Some(25)},
     vehicle_exempted_types : {None, Some(<<>>), Some(<<"bus">>)},
     vehicle_restricted_types : {None, Some(<<>>), Some(<<"heavyGoodsVehicle">>)},
     vehicle_other_exempted_type_text : {None, Some("text")}]

call_create_save_vehicle_dto ==
    Call("create_save_vehicle_dto", create_save_vehicle_dto(call_arg))

InitVehicleSet == InitCall("create_save_vehicle_dto", VehicleSetRows)

SpecVehicleSet == InitVehicleSet /\ [][call_create_save_vehicle_dto]_vars

---------------------------------------------------------------------------
(* Claims about the vehicle set (specification SpecVehicleSet)             *)

\* The names of the vehicle fields, without their prefix.
VehicleFieldNames ==
    {"all_vehicles", "heavyweight_max_weight", "max_height", "max_width",
     "exempted_types", "restricted_types", "other_exempted_type_text"}

\* The vehicle fields of the row that are neither null nor an empty list.
Remaining(row) ==
    {f \in VehicleFieldNames :
        /\ row["vehicle_" \o f] # None
        /\ f \in {"exempted_types", "restricted_types"} => row["vehicle_" \o f][1] # <<>>}

\* C13: vehicle-set collapse.  The vehicle set create_save_vehicle_dto builds
\* from a row carries exactly the vehicle_ fields of the row that are neither
\* null nor empty, under their unprefixed names and with the row's values;
\* when all_vehicles = true is the only such field, the set is all_vehicles =
\* true with no other key.
C13_VehicleSetCollapse ==
    (call_fn = "create_save_vehicle_dto" /\ call_pc = "return") =>
        /\ DOMAIN call_ret = Remaining(call_arg)
        /\ \A f \in Remaining(call_arg) : call_ret[f] = call_arg["vehicle_" \o f][1]
        /\ (Remaining(call_arg) = {"all_vehicles"} /\ call_arg.vehicle_all_vehicles = Some(TRUE))
               => call_ret = [all_vehicles |-> TRUE]

\* C13 witness: all_vehicles true, max_height null and restricted_types empty
\* collapsed to all_vehicles = true alone.
C13_Witness ==
    /\ call_fn = "create_save_vehicle_dto"
    /\ call_pc = "return"
    /\ call_arg.vehicle_all_vehicles = Some(TRUE)
    /\ call_arg.vehicle_max_height = None
    /\ call_arg.vehicle_restricted_types = Some(<<>>)
    /\ call_ret = [all_vehicles |-> TRUE]

---------------------------------------------------------------------------
(* validate_raw_data (base_data_source_integration.py)                     *)

\* A frame is its set of column names with its rows; every row is a record
\* over those columns.  A frame without rows still has its columns.
Frame(columns, rows) == [columns |-> columns, rows |-> rows]

\* SartheRawDataSchema cut down to three of its columns, in declaration
\* order: VITESSE and loc_txt are nullable, date_modif is not.
SartheRawDataSchema ==
    <<[name |-> "VITESSE", nullable |-> TRUE],
      [name |-> "date_modif", nullable |-> FALSE],
      [name |-> "loc_txt", nullable |-> TRUE]>>

\* The schemas a data source can be configured with: none, or the one above.
RawDataSchemas == {None, Some(SartheRawDataSchema)}

\* The columns a raw export can have: the declared ones and one the schema
\* does not declare.
RawColumns == {"VITESSE", "date_modif", "loc_txt", "commune"}

\* Cell values of a raw frame; their types are left out.
RawCells == {None, Some("v")}

\* The raw frames in play: any subset of RawColumns, up to n rows.
RawFrames(n) ==
    UNION {{Frame(cs, rows) : rows \in SeqsUpTo([cs -> RawCells], n)} :
              cs \in SUBSET RawColumns}

\* The first element of the sequence s that satisfies Test (there is one).
FirstThat(s, Test(_)) == s[CHOOSE i \in 1..Len(s) : Test(s[i]) /\ \A j \in 1..(i - 1) : ~Test(s[j])]

\* A selection that keeps every column of the frame.
select_every_column(raw_data, columns_to_keep) == raw_data

\* raw_data.select(columns_to_keep) when every column is there: the frame cut
\* down to those columns.
select(raw_data, columns_to_keep) ==
    Frame(Range(columns_to_keep),
          [i \in 1..Len(raw_data.rows) |->
              [c \in Range(columns_to_keep) |-> raw_data.rows[i][c]]])

\* preprocess_raw_data: the default returns the frame unchanged.
preprocess_raw_data(raw_data) == raw_data

\* raw_data_schema.validate(df) on a frame that has the declared columns: a
\* null in a column not declared nullable raises SchemaError on that column;
\* otherwise the frame is returned.  Extra columns would pass (strict = False).
schema_validate(schema, df) ==
    LET broken(col) == ~col.nullable /\ \E i \in 1..Len(df.rows) : df.rows[i][col.name] = None
    IN IF \E k \in 1..Len(schema) : broken(schema[k])
       THEN [raised |-> "SchemaError", column |-> FirstThat(schema, broken).name]
       ELSE [raised |-> "none", df |-> df]

\* validate_raw_data: NotImplementedError without a schema; the select raises
\* polars' ColumnNotFoundError on the first declared column the frame lacks,
\* before the schema is consulted; then preprocess, then the schema check.
validate_raw_data(raw_data_schema, raw_data) ==
    IF raw_data_schema = None
    THEN [raised |-> "NotImplementedError"]
    ELSE LET schema == raw_data_schema[1]
             columns_to_keep == [k \in 1..Len(schema) |-> schema[k].name]
             missing(c) == c \notin raw_data.columns
         IN IF \E k \in 1..Len(columns_to_keep) : missing(columns_to_keep[k])
            THEN [raised |-> "ColumnNotFoundError",
                  column |-> FirstThat(columns_to_keep, missing)]
            ELSE schema_validate(schema, preprocess_raw_data(select(raw_data, columns_to_keep)))

call_validate_raw_data ==
    Call("validate_raw_data", validate_raw_data(call_arg.raw_data_schema, call_arg.raw_data))

InitValidate ==
    InitCall("validate_raw_data",
             [raw_data_schema : RawDataSchemas, raw_data : RawFrames(MaxRows)])

SpecValidate == InitValidate /\ [][call_validate_raw_data]_vars

---------------------------------------------------------------------------
(* Claims about validate_raw_data (specification SpecValidate)             *)

\* validate_raw_data was applied to a schema and a frame and has ended.
Validated == call_fn = "validate_raw_data" /\ call_pc = "return"

\* The column names the schema of the call declares.
Declared == {call_arg.raw_data_schema[1][k].name : k \in 1..Len(call_arg.raw_data_schema[1])}

\* C14: schema rejection.  validate_raw_data on a raw frame that lacks a
\* column its schema declares returns no frame: it fails with a SchemaError
\* that names a missing column.
C14_MissingColumnIsSchemaError ==
    (/\ Validated
     /\ call_arg.raw_data_schema # None
     /\ ~(Declared \subseteq call_arg.raw_data.columns)) =>
        /\ call_ret.raised = "SchemaError"
        /\ call_ret.column \in Declared \ call_arg.raw_data.columns

\* C15: when validate_raw_data succeeds, the columns of the frame it returns
\* are exactly the columns its schema declares, whatever undeclared columns
\* the raw frame had, and its rows are the raw rows cut down to those
\* columns: neither the preprocess step nor the schema check changes them.
C15_ValidatedColumnsAreDeclared ==
    (Validated /\ call_ret.raised = "none") =>
        /\ call_ret.df.columns = Declared
        /\ Len(call_ret.df.rows) = Len(call_arg.raw_data.rows)
        /\ \A i \in 1..Len(call_ret.df.rows) :
               /\ DOMAIN call_ret.df.rows[i] = Declared
               /\ \A c \in Declared : call_ret.df.rows[i][c] = call_arg.raw_data.rows[i][c]

\* C15 witness: a raw frame of two rows with the undeclared column commune
\* was validated, and the frame returned has no such column.
C15_Witness ==
    /\ Validated
    /\ call_ret.raised = "none"
    /\ "commune" \in call_arg.raw_data.columns
    /\ Len(call_arg.raw_data.rows) = 2
    /\ "commune" \notin call_ret.df.columns
    /\ Len(call_ret.df.rows) = 2

---------------------------------------------------------------------------
(* create_regulations on bounded batches (base_integration.py)             *)

\* Values of measure_type_ in a batch: the enum values and one that is none.
MeasureTypes == MeasureTypeEnum \cup {"bogus"}

\* The regulation fields of a row other than its identifier: two sets of
\* them that agree on no field.
RegulationFields ==
    {[regulation_category |-> "permanentRegulation",
      regulation_subject |-> "other",
      regulation_title |-> "t",
      regulation_other_category_text |-> "Circulation"],
     [regulation_category |-> "temporaryRegulation",
      regulation_subject |-> "roadMaintenance",
      regulation_title |-> "u",
      regulation_other_category_text |-> "Travaux"]}

\* Canonical rows given to create_regulations: two identifiers, two sets of
\* regulation fields, every measure type with and without a max speed.
AssembleRows ==
    {with_columns(row, fields) :
        row \in [regulation_identifier : RegulationIds,
                 measure_type_ : MeasureTypes,
                 measure_max_speed : {None, Some(50)},
                 vehicle_all_vehicles : {Some(TRUE)}],
        fields \in RegulationFields}

\* One call of create_regulations; the groups come in any order.
call_create_regulations ==
    \E order \in Orders(group_keys(call_arg)) :
        Call("create_regulations", create_regulations(call_arg, order, status))

InitAssemble == InitCall("create_regulations", SeqsUpTo(AssembleRows, MaxBatch))

SpecAssemble == InitAssemble /\ [][call_create_regulations]_vars

\* The rows create_regulations is given twice, in two row orders: one title
\* and the enum values as types.
PermutedRows ==
    {row \in AssembleRows :
        /\ row.regulation_title = "t"
        /\ row.measure_type_ \in MeasureTypeEnum
        /\ row.measure_type_ = "noEntry" => row.measure_max_speed = None}

\* The batches with the rows of clean_data in another (or the same) order.
Reorderings(clean_data) ==
    {[i \in 1..Len(clean_data) |-> clean_data[p[i]]] : p \in Orders(1..Len(clean_data))}

\* The pairs of batches of up to n rows that are reorderings of each other.
PermutedPairs(n) ==
    UNION {{<<clean_data, permuted>> : permuted \in Reorderings(clean_data)} :
              clean_data \in SeqsUpTo(PermutedRows, n)}

\* Two calls of create_regulations, one on each batch of the pair.
call_create_regulations_twice ==
    \E order1 \in Orders(group_keys(call_arg[1])), order2 \in Orders(group_keys(call_arg[2])) :
        Call("create_regulations twice",
             <<create_regulations(call_arg[1], order1, status),
               create_regulations(call_arg[2], order2, status)>>)

InitPermuted == InitCall("create_regulations twice", PermutedPairs(MaxBatch))

SpecPermuted == InitPermuted /\ [][call_create_regulations_twice]_vars

---------------------------------------------------------------------------
(* Claims about create_regulations (specifications SpecPermuted and        *)
(* SpecAssemble)                                                           *)

\* create_regulations was applied to both batches of a pair and has ended.
AssembledTwice == call_fn = "create_regulations twice" /\ call_pc = "return"

\* The identifiers of a list of regulations.
IdentifierSet(regs) == {regs[i].identifier : i \in 1..Len(regs)}

\* C16: grouping determinism.  For two batches that hold the same rows in two
\* orders, create_regulations gives the same set of regulation identifiers
\* and, for each identifier, the same number of measures.
C16_GroupingDeterminism ==
    AssembledTwice =>
        /\ IdentifierSet(call_ret[1]) = IdentifierSet(call_ret[2])
        /\ \A i \in 1..Len(call_ret[1]) : \A j \in 1..Len(call_ret[2]) :
               call_ret[1][i].identifier = call_ret[2][j].identifier
                   => Len(call_ret[1][i].measures) = Len(call_ret[2][j].measures)

\* C16 witness: three rows in two different orders, the rows of one
\* identifier apart in the first batch and side by side in the second, gave
\* two regulations each time, one of them with two measures, listed in
\* different orders.
C16_Witness ==
    /\ AssembledTwice
    /\ Len(call_arg[1]) = 3
    /\ call_arg[1][1].regulation_identifier = call_arg[1][3].regulation_identifier
    /\ call_arg[1][1].regulation_identifier # call_arg[1][2].regulation_identifier
    /\ call_arg[2][1].regulation_identifier = call_arg[2][2].regulation_identifier
    /\ Len(call_ret[1]) = 2
    /\ Len(call_ret[2]) = 2
    /\ \E i \in 1..2 : Len(call_ret[1][i].measures) = 2
    /\ call_ret[1][1].identifier # call_ret[2][1].identifier

\* create_regulations was applied to a batch and has ended.
Assembled == call_fn = "create_regulations" /\ call_pc = "return"

\* The construction of the row's measure succeeds: its type is an enum value
\* and, for a speed limitation, its max speed is given.
Builds(row) ==
    /\ row.measure_type_ \in {"speedLimitation", "noEntry"}
    /\ row.measure_type_ = "speedLimitation" => row.measure_max_speed # None

\* The rows of the batch that carry the identifier k and build a measure.
BuildingRows(k) ==
    SelectSeq(call_arg, LAMBDA row : row.regulation_identifier = k /\ Builds(row))

MeasuresOfType(k, t) ==
    LET of_k == SelectSeq(call_ret, LAMBDA r : r.identifier = k)
    IN IF of_k = <<>> THEN <<>> ELSE SelectSeq(of_k[1].measures, LAMBDA m : m.type_ = t)

FirstRowOf(k) == FirstThat(call_arg, LAMBDA row : row.regulation_identifier = k)

\* C25: regulation-level fields come from the first row of the group.  Every
\* regulation create_regulations returns has the identifier of a row of the
\* batch, and its category, subject, title and other_category_text are those
\* of the first row of the batch with that identifier, whatever the later
\* rows of the group say and whether or not that first row built a measure.
C25_FirstRowFields ==
    Assembled =>
        \A i \in 1..Len(call_ret) :
            LET regulation == call_ret[i]
            IN /\ \E n \in 1..Len(call_arg) :
                      call_arg[n].regulation_identifier = regulation.identifier
               /\ regulation.identifier = FirstRowOf(regulation.identifier).regulation_identifier
               /\ regulation.category = FirstRowOf(regulation.identifier).regulation_category
               /\ regulation.subject = FirstRowOf(regulation.identifier).regulation_subject
               /\ regulation.title = FirstRowOf(regulation.identifier).regulation_title
               /\ regulation.other_category_text
                      = FirstRowOf(regulation.identifier).regulation_other_category_text

\* C25 witness: the first row of a group built no measure and the second,
\* which disagrees with it on every regulation field, built one; the
\* regulation has the first row's fields.
C25_Witness ==
    /\ Assembled
    /\ Len(call_arg) = 2
    /\ call_arg[1].regulation_identifier = call_arg[2].regulation_identifier
    /\ ~Builds(call_arg[1])
    /\ Builds(call_arg[2])
    /\ call_arg[1].regulation_title = "u"
    /\ call_arg[2].regulation_title = "t"
    /\ Len(call_ret) = 1
    /\ call_ret[1].title = "u"
    /\ call_ret[1].category = "temporaryRegulation"
    /\ call_ret[1].subject = "roadMaintenance"
    /\ call_ret[1].other_category_text = "Travaux"

---------------------------------------------------------------------------
(* The sources' batches combined (integrate_regulations)                   *)

\* list(get_type_hints(RegulationMeasure).keys()), in declaration order.
required_fields ==
    <<"period_start_date", "period_end_date", "period_start_time", "period_end_time",
      "period_recurrence_type", "period_is_permanent",
      "location_road_type", "location_label", "location_geometry",
      "regulation_identifier", "regulation_category", "regulation_subject",
      "regulation_title", "regulation_other_category_text", "regulation_document_url",
      "measure_type_", "measure_max_speed",
      "vehicle_all_vehicles", "vehicle_heavyweight_max_weight", "vehicle_max_height",
      "vehicle_max_width", "vehicle_exempted_types", "vehicle_restricted_types",
      "vehicle_other_exempted_type_text">>

\* select_regulation_measure_fields: the frame cut down to the RegulationMeasure
\* fields it has; a field it lacks is not added.
select_regulation_measure_fields(df) ==
    select(df, SelectSeq(required_fields, LAMBDA field : field \in df.columns))

\* Rows of a source's clean frame over all the columns in play: the
\* identifier, the nullable document url and a column that is no
\* RegulationMeasure field.
CleanRows ==
    [regulation_identifier : RegulationIds,
     regulation_document_url : {None, Some("u")},
     objectid : {1}]

\* The column sets of a source's clean frame: every source computes the
\* identifier; the other columns are there or not.
CleanColumnSets ==
    {cs \in SUBSET {"regulation_identifier", "regulation_document_url", "objectid"} :
        "regulation_identifier" \in cs}

\* The clean frames of one source, of up to n rows.
CleanFrames(n) ==
    UNION {{Frame(cs, rows) :
               rows \in SeqsUpTo({[c \in cs |-> row[c]] : row \in CleanRows}, n)} :
              cs \in CleanColumnSets}

\* The rows of all the frames, stacked in list order.
stacked_rows(frames) ==
    LET upto[n \in 0..Len(frames)] ==
            IF n = 0 THEN <<>> ELSE upto[n - 1] \o frames[n].rows
    IN upto[Len(frames)]

\* pl.concat(frames, how="vertical"): raises on an empty list and on frames
\* whose columns differ (vertical stacking needs one schema); otherwise the
\* rows are stacked under the common columns.
concat_vertical(frames) ==
    IF frames = <<>>
    THEN [raised |-> "ValueError"]
    ELSE IF \E n \in 1..Len(frames) : frames[n].columns # frames[1].columns
         THEN [raised |-> "ShapeError"]
         ELSE [raised |-> "none", df |-> Frame(frames[1].columns, stacked_rows(frames))]

\* The head of integrate_regulations: the frame each data source yields
\* (ending with select_regulation_measure_fields), then their concatenation.
combined_data(clean_frames) ==
    LET selected ==
            [n \in 1..Len(clean_frames) |-> select_regulation_measure_fields(clean_frames[n])]
    IN concat_vertical(selected)

call_combined_data == Call("combined_data", combined_data(call_arg))

InitCombine == InitCall("combined_data", SeqsUpTo(CleanFrames(MaxSourceRows), MaxSources))

SpecCombine == InitCombine /\ [][call_combined_data]_vars

---------------------------------------------------------------------------
(* Claims about the combined batch (specification SpecCombine)             *)

\* The RegulationMeasure fields that are columns of at least one frame.
FieldsOfAny(frames) ==
    {f \in Range(required_fields) : \E n \in 1..Len(frames) : f \in frames[n].columns}

\* The rows of the frames stacked in list order, each cut down or widened to
\* the columns cs: a column its frame lacks is null.
UnionRows(frames, cs) ==
    LET widened(n) ==
            [i \in 1..Len(frames[n].rows) |->
                [c \in cs |-> IF c \in frames[n].columns THEN frames[n].rows[i][c] ELSE None]]
        upto[n \in 0..Len(frames)] == IF n = 0 THEN <<>> ELSE upto[n - 1] \o widened(n)
    IN upto[Len(frames)]

\* C20 (as claimed): the combined batch of one or more data sources, equal
\* column sets or not, has every RegulationMeasure column of any source's
\* frame and the stacked rows of all frames (null where a frame lacks the
\* column), as many rows as the frames have together.
C20_ConcatIsColumnUnion ==
    (call_fn = "combined_data" /\ call_pc = "return" /\ call_arg # <<>>) =>
        /\ call_ret.raised = "none"
        /\ call_ret.df.columns = FieldsOfAny(call_arg)
        /\ call_ret.df.rows = UnionRows(call_arg, FieldsOfAny(call_arg))
        /\ Len(call_ret.df.rows) = Len(stacked_rows(call_arg))

---------------------------------------------------------------------------
(* integrate_regulations from its data sources (specification SpecSources) *)

\* What an operation of a data source does: it raises, or it returns a frame.
Raises(error) == [raised |-> error]

Returns(df) == [raised |-> "none", df |-> df]

\* The raw frames a source fetches: one the schema accepts, one with a null
\* in the column that is not nullable, one that lacks that column.
SourceRawFrames ==
    {Frame({"VITESSE", "date_modif", "loc_txt"},
           <<[VITESSE |-> Some("v"), date_modif |-> Some("v"), loc_txt |-> None]>>),
     Frame({"VITESSE", "date_modif", "loc_txt"},
           <<[VITESSE |-> Some("v"), date_modif |-> None, loc_txt |-> None]>>),
     Frame({"VITESSE", "loc_txt"}, <<[VITESSE |-> Some("v"), loc_txt |-> None]>>)}

\* Rows of a source's clean frame: speed limitations of 50 under either identifier.
SourceRows ==
    {row \in CanonicalRows :
        row.measure_type_ = "speedLimitation" /\ row.measure_max_speed = Some(50)}

\* The clean frames a source computes, of up to n rows.
SourceCleanFrames(n) ==
    {Frame(CanonicalColumns, rows) :
        rows \in SeqsUpTo(SourceRows, n)}

\* compute_data_regulations of a data source: fetch, validate, compute, select;
\* the first operation that raises ends it with that exception.
compute_data_regulations(data_source) ==
    IF data_source.fetch_raw_data.raised # "none"
    THEN data_source.fetch_raw_data
    ELSE LET validated == validate_raw_data(data_source.raw_data_schema,
                                            data_source.fetch_raw_data.df)
         IN IF validated.raised # "none"
            THEN validated
            ELSE IF data_source.compute_clean_data.raised # "none"
                 THEN data_source.compute_clean_data
                 ELSE Returns(select_regulation_measure_fields(
                                  data_source.compute_clean_data.df))

\* The data sources in play.  A source is what its fetch does, the schema it
\* is configured with and what its compute_clean_data does; an operation that
\* is never reached is left at raising NotImplementedError, as in the base class.
DataSources(n) ==
    LET unimplemented == Raises("NotImplementedError")
        all == [fetch_raw_data : {unimplemented} \cup {Returns(df) : df \in SourceRawFrames},
                raw_data_schema : RawDataSchemas,
                compute_clean_data : {unimplemented}
                                     \cup {Returns(df) : df \in SourceCleanFrames(n)}]
        reached(ds) ==
            /\ ds.fetch_raw_data.raised # "none" => ds.raw_data_schema = None
            /\ (\/ ds.fetch_raw_data.raised # "none"
                \/ validate_raw_data(ds.raw_data_schema, ds.fetch_raw_data.df).raised # "none")
                   => ds.compute_clean_data = unimplemented
            /\ (ds.fetch_raw_data.raised = "none" /\ ds.raw_data_schema = None)
                   => ds.fetch_raw_data.df.columns = {"VITESSE", "loc_txt"}
    IN {ds \in all : reached(ds)}

\* The other variables of a run that has processed no source yet.
SourcesRunStart ==
    /\ published = {}
    /\ cmd = "integrate"
    /\ pc = "sources"
    /\ exc = "none"
    /\ regulations = <<>>
    /\ fetch_resp = [raises |-> TRUE]
    /\ fetched = <<>>
    /\ todo = <<>>
    /\ idx = 1
    /\ count_error = 0
    /\ count_success = 0
    /\ calls = <<>>
    /\ last_accepted = -1
    /\ prior = -1
    /\ prior_failed = {}

\* A loop over the data sources that swallows a source's exception and goes
\* on with an empty frame for it.
compute_data_regulations_step_catch ==
    /\ pc = "sources"
    /\ Len(all_clean_data) < Len(data_sources)
    /\ LET clean == compute_data_regulations(data_sources[Len(all_clean_data) + 1])
       IN all_clean_data' =
              Append(all_clean_data,
                     IF clean.raised # "none"
                     THEN Frame(CanonicalColumns, <<>>)
                     ELSE clean.df)
    /\ UNCHANGED <<run_vars, data_sources, gab_vars, sar_vars, call_vars>>

\* One turn of the loop over data_sources: compute_data_regulations of the
\* next source; its frame is appended, its exception leaves
\* integrate_regulations.
compute_data_regulations_step ==
    /\ pc = "sources"
    /\ Len(all_clean_data) < Len(data_sources)
    /\ LET clean == compute_data_regulations(data_sources[Len(all_clean_data) + 1])
       IN IF clean.raised # "none"
          THEN /\ pc' = "raised"
               /\ exc' = clean.raised
               /\ UNCHANGED all_clean_data
          ELSE /\ all_clean_data' = Append(all_clean_data, clean.df)
               /\ UNCHANGED <<pc, exc>>
    /\ UNCHANGED <<source, remote, published, cmd, regulations, fetch_resp, fetched, todo,
                   idx, count_error, count_success, calls, last_accepted, prior,
                   prior_failed>>
    /\ UNCHANGED <<data_sources, gab_vars, sar_vars, call_vars>>

\* After the loop: pl.concat of the sources' frames; its exception leaves
\* integrate_regulations, else the combined batch is there.
concat_all_clean_data ==
    /\ pc = "sources"
    /\ Len(all_clean_data) = Len(data_sources)
    /\ LET clean_data == concat_vertical(all_clean_data)
       IN IF clean_data.raised # "none"
          THEN /\ pc' = "raised"
               /\ exc' = clean_data.raised
               /\ UNCHANGED source
          ELSE /\ pc' = "combined"
               /\ source' = clean_data.df.rows
               /\ UNCHANGED exc
    /\ UNCHANGED <<remote, published, cmd, regulations, fetch_resp, fetched, todo,
                   idx, count_error, count_success, calls, last_accepted, prior,
                   prior_failed>>
    /\ UNCHANGED <<src_vars, gab_vars, sar_vars, call_vars>>

\* The rest of integrate_regulations, on the combined batch.
create_and_fetch == pc = "combined" /\ assemble_and_diff

InitSources ==
    /\ data_sources \in SeqsUpTo(DataSources(MaxSourceRows), MaxSources)
    /\ all_clean_data = <<>>
    /\ source = <<>>
    /\ remote \in InitialRemotes
    /\ SourcesRunStart
    /\ GabIdle
    /\ SarIdle
    /\ CallIdle

NextSources ==
    \/ compute_data_regulations_step
    \/ concat_all_clean_data
    \/ create_and_fetch
    \/ _integrate_regulations_step
    \/ _integrate_regulations_end

SpecSources == InitSources /\ [][NextSources]_vars

---------------------------------------------------------------------------
(* Claims about the data sources of a run (specification SpecSources)      *)

\* The position of the first data source whose compute_data_regulations
\* raises, or 0 when none does.
FirstFailing ==
    LET fails(n) == compute_data_regulations(data_sources[n]).raised # "none"
    IN IF \E n \in 1..Len(data_sources) : fails(n)
       THEN CHOOSE n \in 1..Len(data_sources) : fails(n) /\ \A m \in 1..(n - 1) : ~fails(m)
       ELSE 0

\* C22: a source failure aborts the run before any remote call.  When a
\* configured data source raises in fetch, validation or computation, the run
\* never gets past the loop over the sources: no source after the first
\* failing one is processed, no regulation is assembled, the identifier
\* request is not issued, no submit call is made, and the run ends with that
\* source's exception.
C22_SourceFailureAborts ==
    FirstFailing # 0 =>
        /\ pc \in {"sources", "raised"}
        /\ Len(all_clean_data) < FirstFailing
        /\ regulations = <<>>
        /\ fetched = <<>>
        /\ calls = <<>>
        /\ remote \in InitialRemotes
        /\ pc = "raised" =>
               /\ Len(all_clean_data) = FirstFailing - 1
               /\ exc = compute_data_regulations(data_sources[FirstFailing]).raised

\* C22 witness: the first of two sources yielded its frame, the second has no
\* schema, and the run ended with NotImplementedError while the remote holds
\* identifiers it was never asked for.
C22_Witness ==
    /\ pc = "raised"
    /\ exc = "NotImplementedError"
    /\ Len(data_sources) = 2
    /\ Len(all_clean_data) = 1
    /\ all_clean_data[1].rows # <<>>
    /\ data_sources[2].fetch_raw_data.raised = "none"
    /\ data_sources[2].raw_data_schema = None
    /\ remote # <<>>
    /\ calls = <<>>

---------------------------------------------------------------------------
(* Claims about the identifiers of a run (specification Spec)              *)

\* The identifiers of the combined batch that have a row whose measure
\* construction succeeds: the unsuffixed identifiers of the regulations
\* create_regulations returns.
AssembledKeys ==
    {k \in group_keys(source) :
        \E n \in 1..Len(source) : source[n].regulation_identifier = k /\ Builds(source[n])}

\* C26: suffix convention.  In an integrate run the identifiers of the
\* regulations are exactly the assembled identifiers with "-0" appended once;
\* the diff keeps the regulations whose suffixed identifier is not in the
\* fetched list, every add call carries a suffixed identifier, and distinct
\* assembled identifiers have distinct suffixed identifiers.
C26_SuffixConvention ==
    cmd = "integrate" =>
        /\ Range(Identifiers(regulations)) = {k \o "-0" : k \in AssembledKeys}
        /\ ~FetchFailed =>
               Identifiers(todo)
                   = SelectSeq(Identifiers(regulations), LAMBDA id : id \notin Range(fetched))
        /\ \A i \in 1..Len(calls) : \E k \in AssembledKeys : calls[i].identifier = k \o "-0"
        /\ \A k1, k2 \in AssembledKeys : k1 # k2 => k1 \o "-0" # k2 \o "-0"

\* C26 witness: the remote held "a-0"; of the regulations assembled as "a" and
\* "b" only "b-0" was submitted.
C26_Witness ==
    /\ cmd = "integrate" /\ pc = "done"
    /\ AssembledKeys = {"a", "b"}
    /\ "a-0" \in Range(fetched)
    /\ CalledIdentifiers = <<"b-0">>

---------------------------------------------------------------------------
(* Claims about the regulations of a run from its data sources             *)
(* (specification SpecSources)                                             *)

\* The rows of the frames of the sources processed so far that carry the
\* identifier k and build a measure.
SourceRowsOf(k) ==
    SelectSeq(stacked_rows(all_clean_data),
              LAMBDA row : row.regulation_identifier = k /\ Builds(row))

\* C27: within one run of integrate_regulations the identifiers of the
\* assembled regulations are pairwise distinct: rows of one identifier, from
\* one data source or several, are merged into one regulation that has one
\* measure per such row; and no identifier is submitted twice in the run.
C27_DistinctIdentifiersInRun ==
    /\ \A i, j \in 1..Len(regulations) :
           i # j => regulations[i].identifier # regulations[j].identifier
    /\ \A i \in 1..Len(regulations) : \A k \in RegulationIds :
           regulations[i].identifier = k \o "-0"
               => Len(regulations[i].measures) = Len(SourceRowsOf(k))
    /\ \A i, j \in 1..Len(calls) : i # j => calls[i].identifier # calls[j].identifier

\* C27 witness: two data sources each yielded a row of identifier "a"; the run
\* assembled one regulation of two measures and submitted "a-0" once.
C27_Witness ==
    /\ pc = "done"
    /\ Len(all_clean_data) = 2
    /\ all_clean_data[1].rows # <<>>
    /\ all_clean_data[2].rows # <<>>
    /\ \A n \in 1..2 : all_clean_data[n].rows[1].regulation_identifier = "a"
    /\ Len(regulations) = 1
    /\ Len(regulations[1].measures) = 2
    /\ CalledIdentifiers = <<"a-0">>

---------------------------------------------------------------------------
(* Claims about runs that follow each other (specification Spec)           *)

\* The add call was accepted: it returned with status 201.
Accepted(call) == ~call.resp.raises /\ call.resp.status_code = 201

\* An integrate run that got its identifier list has ended, by returning or
\* by an exception.
IntegrateEnded == cmd = "integrate" /\ pc \in {"done", "raised"} /\ ~FetchFailed

\* Every regulation whose submission failed in the integrate run before this
\* one was submitted again by this run.
FailedIsResubmitted == IntegrateEnded => prior_failed \subseteq Range(CalledIdentifiers)

\* An integrate run that follows an integrate run does not take up a
\* regulation the earlier run had accepted.
AcceptedIsNotResubmitted ==
    (cmd = "integrate" /\ pc # "submit" /\ cmd' = "integrate" /\ pc' = "submit") =>
        \A i \in 1..Len(calls) :
            Accepted(calls[i]) => calls[i].identifier \notin Range(Identifiers(todo'))

\* The remote system accepts an identifier it does not hold yet: its list
\* never has an identifier twice.
AcceptedAtMostOnce ==
    \A i, j \in 1..Len(remote) : i # j => remote[i] # remote[j]

\* C28 (as claimed): retry by re-run.  Over unchanged source data, the run
\* after an integrate run submits again every regulation whose submission
\* failed in it and none whose submission succeeded; over any sequence of
\* runs the remote system accepts each identifier at most once.
C28_RetryByRerun ==
    /\ []FailedIsResubmitted
    /\ [][AcceptedIsNotResubmitted]_vars
    /\ []AcceptedAtMostOnce

---------------------------------------------------------------------------
(* Claims about the remote lifecycle (specification Spec)                  *)

\* The remote system got a regulation it did not hold: the step is an
\* accepted add call of an integrate run for an identifier unknown to it,
\* whose body has the draft status, and the regulation is not published.
CreatedOnlyBySubmit ==
    remote' # remote =>
        /\ cmd = "integrate" /\ pc = "submit"
        /\ todo[idx].identifier \notin Range(remote)
        /\ todo[idx].status = "draft"
        /\ Len(calls') = Len(calls) + 1
        /\ Accepted(calls'[Len(calls')])
        /\ calls'[Len(calls')].identifier = todo[idx].identifier
        /\ remote' = Append(remote, todo[idx].identifier)
        /\ todo[idx].identifier \notin published'

\* A regulation's publication changes only by a publish call answered with
\* success for a regulation the remote system holds; a published regulation
\* stays published, and a publish run creates nothing.
PublishOnlyMovesForward ==
    /\ published \subseteq published'
    /\ published' # published =>
           /\ cmd = "publish" /\ pc = "publish"
           /\ published' = published \cup {fetched[idx]}
           /\ fetched[idx] \in Range(remote)
    /\ cmd' = "publish" => remote' = remote

\* A publish run has returned with every call answered 200, right after an
\* integrate run that returned with every submission accepted.
IntegratedThenPublished ==
    /\ cmd = "publish" /\ pc = "done"
    /\ prior >= 0
    /\ \A i \in 1..Len(calls) : ~calls[i].resp.raises /\ calls[i].resp.status_code = 200

\* C30: remote lifecycle.  The remote system gets a regulation only by an
\* accepted submit, in draft status; a publish only moves a regulation it
\* holds to published and nothing moves one back; and after an integrate run
\* whose submissions all succeeded and a publish run whose calls all
\* succeeded, every regulation assembled from the source data is held by the
\* remote system and published.
C30_RemoteLifecycle ==
    /\ [][CreatedOnlyBySubmit /\ PublishOnlyMovesForward]_vars
    /\ [](published \subseteq Range(remote))
    /\ [](IntegratedThenPublished =>
              \A k \in AssembledKeys :
                  k \o "-0" \in Range(remote) /\ k \o "-0" \in published)

\* C30 witness: two regulations were accepted by an integrate run, then a
\* publish run whose calls all succeeded published them.
C30_Witness ==
    /\ IntegratedThenPublished
    /\ prior = 2
    /\ AssembledKeys = {"a", "b"}
    /\ {"a-0", "b-0"} \subseteq published
    /\ Len(calls) >= 2

====
